---- MODULE Spec2Model ----
(***************************************************************************)
(* The indentation check of linty (src/linty/indent.py): the column        *)
(* resolver lengthExpandedTabs, the IndentLevel value type, the            *)
(* configuration, the per-kind node handlers with the curly brace check,   *)
(* and the traversal engine IndentationCheck.                              *)
(*                                                                         *)
(* The source is Python 2: "/" on integers is floor division, None is      *)
(* falsy, and an uncaught exception leaves enterNode at the statement      *)
(* that raised it.  An optional value (None or an object) is a sequence    *)
(* of length 0 or 1.                                                       *)
(***************************************************************************)
EXTENDS Integers, Sequences, FiniteSets, TLC

VARIABLES
    config,      \* IndentationCheck.config, an IndentationConfig
    handlers,    \* IndentationCheck.handlers, the handler stack (top is last)
    level,       \* IndentationCheck.level, the depth counter
    violations,  \* IndentationCheck.violations, the Violation Sink
    raised,      \* the exception that ended the last call, or NoException
    hist,        \* history of the session: calls made, handlers built, popped
    call         \* the call just made (traversal) or in progress (pure functions)

vars == <<config, handlers, level, violations, raised, hist, call>>

\* ------------------------------------------------------------------------
\* Bounds of the model
\* ------------------------------------------------------------------------

\* Longest line given to lengthExpandedTabs on its own.
MaxLineLen == 3
\* Largest tab width given to lengthExpandedTabs on its own.
MaxTabWidth == 4
\* Number of lines of the file under check.
MaxLine == 3
\* Longest token window of a node.
MaxTokens == 3
\* enterNode calls per run of the engine.
MaxNodes == 3
\* Deepest nesting of nodes below the root.
MaxDepth == 3
\* Trees per run of the engine.
MaxTrees == 2
\* Options given to one IndentationConfig(**kwargs) call.
MaxKwargs == 1
\* Largest column held by an IndentLevel built on its own.
MaxIndent == 4
\* Most values held by an IndentLevel built on its own.
MaxMembers == 3
\* Largest offset (either sign) given to IndentLevel(base=, offset=).
MaxOffset == 2
\* Most keyword arguments of one IndentationConfig call followed step by step.
MaxOptions == 2
\* Deepest nesting of the classes entered in the sessions of SpecBraces.
MaxBlockDepth == 2

\* Largest column added to a level by hand in the widening sessions.
MaxWiden == 1

\* ------------------------------------------------------------------------
\* Values
\* ------------------------------------------------------------------------

None == <<>>
Some(x) == <<x>>

NoException == "NoException"

TAB == "\t"
\* Any character other than a tab.
NONTAB == "x"

\* ------------------------------------------------------------------------
\* lengthExpandedTabs (indent.py 21-28)
\* ------------------------------------------------------------------------

\* One pass of the body of the for loop: the new value of l.
lengthExpandedTabsBody(c, l, tab_width) ==
    IF c = TAB
    THEN l + ((l \div tab_width) + 1) * tab_width
    ELSE l + 1

RECURSIVE lengthExpandedTabsFrom(_, _, _, _, _)
lengthExpandedTabsFrom(s, to_idx, tab_width, i, l) ==
    IF i >= to_idx
    THEN l
    ELSE lengthExpandedTabsFrom(s, to_idx, tab_width, i + 1,
                                lengthExpandedTabsBody(s[i + 1], l, tab_width))

\* s is a sequence of characters (1-based here, 0-based in the source),
\* to_idx <= Len(s).
lengthExpandedTabs(s, to_idx, tab_width) ==
    lengthExpandedTabsFrom(s, to_idx, tab_width, 0, 0)

\* ------------------------------------------------------------------------
\* IndentLevel (indent.py 31-62)
\* ------------------------------------------------------------------------

\* IndentLevel.__init__ as it would be if the loop forgot the offset.
IndentLevelNoOffset(indent, base, offset) ==
    IF indent # None
    THEN [levels |-> {indent[1]}]
    ELSE [levels |-> {l : l \in base[1].levels}]

\* IndentLevel.__init__: indent, base and offset are optional; base is an
\* IndentLevel object.
IndentLevel(indent, base, offset) ==
    IF indent # None
    THEN [levels |-> {indent[1]}]
    ELSE [levels |-> {l + offset[1] : l \in base[1].levels}]

isMultilevel(self) == Cardinality(self.levels) > 1

accept(self, indent) == indent \in self.levels

gt(self, indent) ==
    (CHOOSE m \in self.levels : \A l \in self.levels : l <= m) > indent

\* The argument is an IndentLevel object ([levels |-> ...]) or an integer
\* ([int |-> n]); the source tells them apart with type(level).
addAcceptedIndent(self, arg) ==
    IF "levels" \in DOMAIN arg
    THEN [levels |-> self.levels \cup arg.levels]
    ELSE [levels |-> self.levels \cup {arg.int}]

\* ------------------------------------------------------------------------
\* IndentationConfig (indent.py 1029-1334)
\* ------------------------------------------------------------------------

\* The attributes __init__ sets before it reads kwargs: the general, indent
\* and brace position settings (the white space, control statement and line
\* wrapping settings are read by no handler and are left out).
DefaultConfig ==
    [ tab_policy |-> "spaces-only",
      indentation_size |-> 4,
      tab_size |-> 4,
      indent_visibility_specifiers |-> FALSE,
      indent_below_visibility_specifiers |-> TRUE,
      indent_inside_class_struct_body |-> TRUE,
      indent_statements_within_function_bodies |-> TRUE,
      indent_statements_within_blocks |-> TRUE,
      indent_statements_within_switch_body |-> FALSE,
      indent_statements_within_case_body |-> TRUE,
      indent_break_statements |-> TRUE,
      indent_declarations_within_namespace_definition |-> FALSE,
      brace_positions_class_struct_declaration |-> "same-line",
      brace_positions_namespace_declaration |-> "same-line",
      brace_positions_function_declaration |-> "same-line",
      brace_positions_blocks |-> "same-line",
      brace_positions_blocks_in_case_statement |-> "same-line",
      brace_positions_switch_statement |-> "same-line",
      brace_positions_brace_positions_initializer_list |-> "same-line",
      brace_positions_keep_empty_initializer_list_on_one_line |-> TRUE ]

\* An attribute every object has without __init__ setting it, taken as the
\* one of its kind (__init__, __class__, __dict__, ... are others).
ObjectAttributes == { "__doc__" }

\* hasattr(self, key): true of the attributes __init__ has set and of the
\* attributes the object inherits from its class.
hasattr(self, key) == key \in DOMAIN self \/ key \in ObjectAttributes

\* hasattr(self, key) for every key of kwargs.
KnownParameters(kwargs) ==
    \A key \in DOMAIN kwargs : hasattr(DefaultConfig, key)

\* The configuration IndentationConfig(**kwargs) builds when it does not
\* raise UnknownParameter.
IndentationConfig(kwargs) ==
    [a \in DOMAIN DefaultConfig \cup DOMAIN kwargs |->
        IF a \in DOMAIN kwargs THEN kwargs[a] ELSE DefaultConfig[a]]

\* The brace styles checkCurlyBraces knows (lines 203, 210, 221).
BraceStyles == {"same-line", "next-line", "next-line-indent"}

\* The values tried for an option.  The constructor takes any value; for a
\* brace position the three styles and the name the comment at line 1087
\* gives the third one are tried.
OptionValues(key) ==
    CASE key \in {"indentation_size", "tab_size"} -> {2, 4}
      [] key \in {"brace_positions_class_struct_declaration",
                  "brace_positions_namespace_declaration"} ->
            BraceStyles \cup {"next-line-indented"}
      [] key \in ObjectAttributes -> {"doc"}
      [] OTHER -> BOOLEAN

NoKwargs == [k \in {} |-> TRUE]

\* Every kwargs of at most n of the given option names.
RECURSIVE KwargsOver(_, _)
KwargsOver(keys, n) ==
    IF keys = {} \/ n = 0
    THEN {NoKwargs}
    ELSE LET k == CHOOSE x \in keys : TRUE
         IN  KwargsOver(keys \ {k}, n)
             \cup { [x \in DOMAIN f \cup {k} |-> IF x = k THEN v ELSE f[x]] :
                      f \in KwargsOver(keys \ {k}, n - 1), v \in OptionValues(k) }

\* The configurations the constructor yields for a set of kwargs.
Configs(kwargsSet) ==
    { IndentationConfig(kw) : kw \in { k \in kwargsSet : KnownParameters(k) } }

\* ------------------------------------------------------------------------
\* The file under check, tokens and nodes (the external collaborators)
\* ------------------------------------------------------------------------

\* The text of line n, as file_reader.readFile returns it: a line without
\* tabs, a line indented with a tab, and a line with a tab behind its first
\* character, in turn.
LineText(n) ==
    CASE n % 3 = 1 -> <<NONTAB, NONTAB, NONTAB>>
      [] n % 3 = 2 -> <<TAB, NONTAB, NONTAB>>
      [] OTHER -> <<NONTAB, TAB, NONTAB>>

FileLines == [n \in 1..MaxLine |-> LineText(n)]

\* extent.start of a token or of a node: a 1-based line and a 1-based raw
\* column; nothing starts on a tab.
Positions ==
    UNION { { [line |-> n, column |-> c] :
                c \in { d \in 1..Len(FileLines[n]) : FileLines[n][d] # TAB } } :
            n \in 1..MaxLine }

Before(p, q) == p.line < q.line \/ (p.line = q.line /\ p.column < q.column)

\* ci.TokenKind of a spelling.
TokenKindOf(spelling) ==
    IF spelling \in {"{", "}"} THEN "PUNCTUATION" ELSE "IDENTIFIER"

Tokens ==
    { [kind |-> TokenKindOf(s), spelling |-> s, start |-> p] :
        s \in {"{", "}", "x"}, p \in Positions }

\* The token sequences ci.tokenize can return: up to n tokens in source order.
RECURSIVE WindowsOfLen(_)
WindowsOfLen(n) ==
    IF n = 0
    THEN {<<>>}
    ELSE UNION { { Append(w, t) :
                     t \in { u \in Tokens :
                               \A i \in 1..(n - 1) : Before(w[i].start, u.start) } } :
                 w \in WindowsOfLen(n - 1) }

Windows == UNION { WindowsOfLen(n) : n \in 0..MaxTokens }

\* node.kind as the words of its name: CLASS_DECL is <<"CLASS", "DECL">>.
CLASS_DECL == <<"CLASS", "DECL">>
NAMESPACE == <<"NAMESPACE">>
ENUM_DECL == <<"ENUM", "DECL">>
SWITCH_STMT == <<"SWITCH", "STMT">>
TYPEDEF_DECL == <<"TYPEDEF", "DECL">>
LAMBDA_EXPR == <<"LAMBDA", "EXPR">>

\* A cursor: its kind, its extent.start and the tokens of its extent.  The
\* extent of a node with tokens starts at its first token.
Node(kind, start, tokens) == [kind |-> kind, start |-> start, tokens |-> tokens]

FirstPosition == [line |-> 1, column |-> 1]

NodesOf(kinds, starts, windows) ==
    { Node(k, IF w = <<>> THEN s ELSE w[1].start, w) :
        k \in kinds, s \in starts, w \in windows }

\* ------------------------------------------------------------------------
\* getHandler: from node kind to handler class (indent.py 1015-1022)
\* ------------------------------------------------------------------------

\* str.title() on one upper case word of a kind name.
TitleWord(w) ==
    CASE w = "CLASS" -> "Class"
      [] w = "DECL" -> "Decl"
      [] w = "NAMESPACE" -> "Namespace"
      [] w = "ENUM" -> "Enum"
      [] w = "SWITCH" -> "Switch"
      [] w = "STMT" -> "Stmt"
      [] w = "TYPEDEF" -> "Typedef"
      [] w = "LAMBDA" -> "Lambda"
      [] w = "EXPR" -> "Expr"

RECURSIVE JoinTitle(_)
JoinTitle(words) ==
    IF words = <<>> THEN "" ELSE TitleWord(Head(words)) \o JoinTitle(Tail(words))

\* class_name: the kind name with "_" removed, title-cased, plus "Handler".
ClassName(kind) == JoinTitle(kind) \o "Handler"

\* The handler classes the module defines: the names eval() can resolve.
HandlerClasses == {
    "IndentSyntaxNodeHandler", "RootHandler", "CurlyBraceBlockHandler", "AddrLabelExprHandler",
    "ArraySubscriptExprHandler", "AsmStmtHandler", "BinaryOperatorHandler", "BlockExprHandler",
    "BreakStmtHandler", "CallExprHandler", "CaseStmtHandler", "CharacterLiteralHandler",
    "ClassDeclHandler", "ClassTemplateHandler", "ClassTemplatePartialSpecializationHandler",
    "CompoundAssignmentOperatorHandler", "CompoundLiteralExprHandler", "CompoundStmtHandler",
    "ConditonalOperatorHandler", "ConstructorHandler", "ContinueStmtHandler",
    "ConversionFunctionHandler", "CstyleCastExprHandler", "CxxAccessSpecDeclHandler",
    "CxxBaseSpecifierHandler", "CxxBoolLiteralExprHandler", "CxxCatchStmtHandler",
    "CxxConstCastExprHandler", "CxxDeleteExprHandler", "CxxDynamicCastExprHandler",
    "CxxForRangeStmtHandler", "CxxFunctionalCastExprHandler", "CxxMethodHandler",
    "CxxNewExprHandler", "CxxNullPtrLiteralExprHandler", "CxxReinterpretCastExprHandler",
    "CxxStaticCastExprHandler", "CxxThisExprHandler", "CxxThrowExprHandler",
    "CxxTryStmtHandler", "CxxTypeidExprHandler", "CxxUnaryExprHandler", "DeclRefExprHandler",
    "DeclStmtHandler", "DefaultStmtHandler", "DestructorHandler", "DoStmtHandler",
    "EnumConstantDeclHandler", "EnumDeclHandler", "FieldDeclHandler", "FloatingLiteralHandler",
    "ForStmtHandler", "FunctionDeclHandler", "FunctionTemplateHandler",
    "GenericSelectionExprHandler", "GnuNullExprHandler", "GotoStmtHandler",
    "IbActionAttrHandler", "IbOutletAttrHandler", "IbOutletCollectionAttrHandler",
    "IfStmtHandler", "ImaginaryLiteralHandler", "InclusionDirectiveHandler",
    "IndirectGotoStmtHandler", "InitListExprHandler", "IntegerLiteralHandler",
    "InvalidCodeHandler", "InvalidFileHandler", "LabelRefHandler", "LabelStmtHandler",
    "LinkageSpecHandler", "MacroDefinitionHandler", "MacroInstantiationHandler",
    "MemberRefHandler", "MemberRefExprHandler", "NamespaceHandler", "NamespaceAliasHandler",
    "NamespaceRefHandler", "NotImplementedHandler", "NoDeclFoundHandler", "NullStmtHandler",
    "ObjcAtCatchStmtHandler", "ObjcAtFinallyStmtHandler", "ObjcAtSynchronizedStmtHandler",
    "ObjcAtThrowStmtHandler", "ObjcAtTryStmtHandler", "ObjcAutoreleasePoolStmtHandler",
    "ObjcBridgeCastExprHandler", "ObjcCategoryDeclHandler", "ObjcCategoryImplDeclHandler",
    "ObjcClassMethodDeclHandler", "ObjcClassRefHandler", "ObjcDynamicDeclHandler",
    "ObjcEncodeExprHandler", "ObjcForCollectionStmtHandler", "ObjcImplementationDeclHandler",
    "ObjcInstanceMethodDeclHandler", "ObjcInterfaceDeclHandler", "ObjcIvarDeclHandler",
    "ObjcMessageExprHandler", "ObjcPropertyDeclHandler", "ObjcProtocolDeclHandler",
    "ObjcProtocolExprHandler", "ObjcProtocolRefHandler", "ObjcSelectorExprHandler",
    "ObjcStringLiteralHandler", "ObjcSuperClassRefHandler", "ObjcSynthesizeDeclHandler",
    "OverloadedDeclRefHandler", "PackExpansionExprHandler", "ParenExprHandler",
    "ParmDeclHandler", "PreprocessingDirectiveHandler", "ReturnStmtHandler",
    "SehExceptStmtHandler", "SehFinallyStmtHandler", "SehTryStmtHandler",
    "SizeOfPackExprHandler", "StringLiteralHandler", "StructDeclHandler", "SwitchStmtHandler",
    "StmtexprHandler", "TemplateNonTypeParameterHandler", "TemplateRefHandler",
    "TemplateTemplateParameterHandler", "TemplateTypeParameterHandler",
    "TranslationUnitHandler", "TypedefDeclHandler", "TypeAliasDeclHandler", "TypeRefHandler",
    "UnaryOperatorHandler", "UnexposedAttrHandler", "UnexposedDeclHandler",
    "UnexposedExprHandler", "UnexposedStmtHandler", "UnionDeclHandler",
    "UsingDeclarationHandler", "UsingDirectiveHandler", "VarDeclHandler", "WhileStmtHandler" }

\* getHandler as it would be if an unknown kind fell back to a handler.
HasHandlerClassAny(class_name) == TRUE

\* eval(class_name) finds a class.
HasHandlerClass(class_name) == class_name \in HandlerClasses

\* The classes derived from CurlyBraceBlockHandler.
CurlyBraceBlockClasses ==
    { "ClassDeclHandler", "ClassTemplateHandler",
      "ClassTemplatePartialSpecializationHandler", "NamespaceHandler",
      "StructDeclHandler" }

\* ------------------------------------------------------------------------
\* IndentSyntaxNodeHandler and RootHandler (indent.py 70-182)
\* ------------------------------------------------------------------------

\* The result of a call: the exception it raised, or its value.
Return(v) == [raised |-> NoException, value |-> Some(v)]
Raise(e) == [raised |-> e, value |-> None]

\* The configuration attribute a class returns from shouldIncreaseIndent,
\* or None for the classes that inherit the default.
IncreaseIndentAttribute(klass) ==
    CASE klass \in { "ClassDeclHandler", "StructDeclHandler", "ClassTemplateHandler",
                     "ClassTemplatePartialSpecializationHandler", "EnumDeclHandler" } ->
            Some("indent_inside_class_struct_body")
      [] klass = "NamespaceHandler" ->
            Some("indent_declarations_within_namespace_definition")
      [] klass = "SwitchStmtHandler" -> Some("indent_within_switch_body")
      [] OTHER -> None

\* shouldIncreaseIndent: reading an attribute the configuration does not
\* have raises AttributeError.
shouldIncreaseIndent(self) ==
    LET attr == IncreaseIndentAttribute(self.klass)
    IN  IF attr = None THEN Return(FALSE)
        ELSE IF attr[1] \in DOMAIN config THEN Return(config[attr[1]])
        ELSE Raise("AttributeError")

\* suggestedChildLevel as it would be if it always added the indentation.
suggestedChildLevelAlways(self) ==
    LET inc == shouldIncreaseIndent(self)
    IN  IF inc.raised # NoException THEN Raise(inc.raised)
        ELSE Return(IndentLevel(None, Some(self.level), Some(config.indentation_size)))

\* suggestedChildLevel as it would be if an increased level still accepted
\* the columns of the handler's own level.
suggestedChildLevelWidened(self) ==
    LET inc == shouldIncreaseIndent(self)
    IN  IF inc.raised # NoException THEN Raise(inc.raised)
        ELSE IF inc.value[1]
        THEN Return(addAcceptedIndent(
                      IndentLevel(None, Some(self.level), Some(config.indentation_size)),
                      self.level))
        ELSE Return(IndentLevel(None, Some(self.level), Some(0)))

suggestedChildLevel(self) ==
    LET inc == shouldIncreaseIndent(self)
    IN  IF inc.raised # NoException THEN Raise(inc.raised)
        ELSE IF inc.value[1]
        THEN Return(IndentLevel(None, Some(self.level), Some(config.indentation_size)))
        ELSE Return(IndentLevel(None, Some(self.level), Some(0)))

\* suggestedChildLevel returns a reference to an IndentLevel object; this
\* is the object, as it would be if the handler handed out its own level
\* where the indent is not increased (return self.level).
suggestedChildLevelObjectOwn(self) ==
    IF shouldIncreaseIndent(self).value = Some(TRUE)
    THEN Len(handlers) + 1
    ELSE self.level_object

\* The IndentLevel object suggestedChildLevel returns.  Both branches call
\* IndentLevel(base=self.level, offset=...), which builds a new object
\* with a set of its own (self.levels = set(), line 36) and copies the
\* shifted columns of the base into it.  The level objects alive in a
\* session are those of the handlers on the stack, and a new one is named
\* by the place on the stack of the handler it is built for, a name no
\* handler on the stack holds.
suggestedChildLevelObject(self) == Len(handlers) + 1

\* RootHandler as it would be if its level were one indentation unit.
RootHandlerIndented ==
    [ klass |-> "RootHandler", node |-> None, parent |-> None,
      level |-> IndentLevel(Some(config.indentation_size), None, None),
      level_object |-> 1, token_set |-> None ]

\* RootHandler(indentation_check): no name, no node, no parent, level {0}.
\* The root is built for the first place of the stack, which names its
\* level object.
RootHandler ==
    [ klass |-> "RootHandler", node |-> None, parent |-> None,
      level |-> IndentLevel(Some(0), None, None), level_object |-> 1,
      token_set |-> None ]

\* klass(indentation_check, kind_name, node, parent): the level comes from
\* the parent in IndentSyntaxNodeHandler.__init__.  self.parent refers to
\* the parent handler, which is the top of the stack when enterNode builds
\* the handler; the reference is kept as the parent's place on the stack.
\* RootHandler overrides __init__ to take the check only (lines 175-176),
\* so the call with four arguments raises TypeError.
NewHandler(klass, node, parent) ==
    LET suggested == suggestedChildLevel(parent)
    IN  IF klass = "RootHandler" THEN Raise("TypeError")
        ELSE IF suggested.raised # NoException THEN Raise(suggested.raised)
        ELSE Return([ klass |-> klass, node |-> Some(node),
                      parent |-> Some(Len(handlers)),
                      level |-> suggested.value[1],
                      level_object |-> suggestedChildLevelObject(parent),
                      token_set |-> None ])

getHandler(node, parent) ==
    LET class_name == ClassName(node.kind)
    IN  IF ~HasHandlerClass(class_name) THEN Raise("NameError")
        ELSE NewHandler(class_name, node, parent)

\* RuleViolation(rule_type, file, line, column, text) of a node or token;
\* the session checks one file, its name is left out.
RuleViolation(rule_type, node, text) ==
    [ rule_type |-> rule_type, line |-> node.start.line,
      column |-> node.start.column, text |-> text ]

\* areOnSameLine as it would be if it forgot to compare the lines.
areOnSameLineAnyLine(node1, node2) == node1 # None /\ node2 # None

areOnSameLine(node1, node2) ==
    node1 # None /\ node2 # None /\ node1[1].start.line = node2[1].start.line

\* areOnSameColumn as it would be if no two tokens were on one column.
areOnSameColumnNever(node1, node2) == FALSE

areOnSameColumn(node1, node2) ==
    node1 # None /\ node2 # None /\ node1[1].start.column = node2[1].start.column

\* expandedTabsColumnNo as it would be if it returned the raw offset.
expandedTabsColumnNoRaw(node) == node.start.column - 1

expandedTabsColumnNo(node) ==
    lengthExpandedTabs(FileLines[node.start.line], node.start.column - 1,
                       config.tab_size)

\* ------------------------------------------------------------------------
\* CurlyBraceBlockHandler (indent.py 185-264)
\* ------------------------------------------------------------------------

\* ci.tokenize(translation_unit, extent): the tokens of the node.
tokenize(node) == node.tokens

\* _getTokenSet (lines 93-100): the cached token set is returned when it is
\* truthy, which neither None nor an empty list is; otherwise the tokenizer
\* is called and its result cached.  tokenized counts the tokenizer calls.
getTokenSet(self) ==
    IF self.token_set # None /\ self.token_set[1] # <<>>
    THEN [self |-> self, token_set |-> self.token_set[1], tokenized |-> 0]
    ELSE [self |-> [self EXCEPT !.token_set = Some(tokenize(self.node[1]))],
          token_set |-> tokenize(self.node[1]), tokenized |-> 1]

\* The handler after n token queries, and the tokenizer calls they made.
RECURSIVE QueryTokenSet(_, _)
QueryTokenSet(self, n) ==
    IF n = 0 THEN [self |-> self, tokenized |-> 0]
    ELSE LET before == QueryTokenSet(self, n - 1)
             query == getTokenSet(before.self)
         IN  [self |-> query.self, tokenized |-> before.tokenized + query.tokenized]

\* The first "{" punctuation token, or None.
getLCurlyBrace(token_set) ==
    LET found == { i \in 1..Len(token_set) :
                     token_set[i].kind = "PUNCTUATION" /\ token_set[i].spelling = "{" }
    IN  IF found = {} THEN None
        ELSE Some(token_set[CHOOSE i \in found : \A j \in found : i <= j])

\* The last "}" punctuation token, or None.
getRCurlyBrace(token_set) ==
    LET found == { i \in 1..Len(token_set) :
                     token_set[i].kind = "PUNCTUATION" /\ token_set[i].spelling = "}" }
    IN  IF found = {} THEN None
        ELSE Some(token_set[CHOOSE i \in found : \A j \in found : i >= j])

\* The token before the first "{", or None (also when "{" comes first).
getTokenLeftOfLeftLCurlyBrace(token_set) ==
    LET found == { i \in 1..Len(token_set) :
                     token_set[i].kind = "PUNCTUATION" /\ token_set[i].spelling = "{" }
        first == CHOOSE i \in found : \A j \in found : i <= j
    IN  IF found = {} THEN None
        ELSE IF first = 1 THEN None
        ELSE Some(token_set[first - 1])

\* getFirstToken, where the token set is not empty.
getFirstToken(token_set) == Some(token_set[1])

MsgSameLine == "Opening brace should be on the same line as the token left of it."
MsgOpenColumn == "Opening brace should be on the same column as block start."
MsgCloseColumn == "Closing brace should be on the same column as block start."
MsgNextLine == "Opening brace should be on the line directly after block start."
MsgOpenIndent == "Opening brace should be indented one level further than block start."
MsgCloseIndent == "Closing brace should be indented one level further than block start."
MsgInvalidLevel == "Invalid indentation level."

\* What a check did: the violations it logged, in order, and the exception
\* that ended it, if any.
Checked(logged, exception) == [logged |-> logged, raised |-> exception]

\* if cond: self.logViolation('indent.brace', node, msg), for a node that
\* is not None.
LogIf(cond, node, msg) ==
    IF cond THEN <<RuleViolation("indent.brace", node[1], msg)>> ELSE <<>>

\* The branch for 'same-line' (lines 203-209); lbrace is not None.  With no
\* "}" the comparison is falsy and logViolation reads None.extent.
checkSameLine(self, lbrace, rbrace, t, first) ==
    LET v1 == LogIf(~areOnSameLine(t, lbrace), lbrace, MsgSameLine)
    IN  IF ~areOnSameColumn(first, rbrace)
        THEN IF rbrace = None
             THEN Checked(v1, "AttributeError")
             ELSE Checked(v1 \o LogIf(TRUE, rbrace, MsgCloseColumn), NoException)
        ELSE Checked(v1, NoException)

\* The branch for 'next-line' (lines 210-219).  With no token left of the
\* brace, t.extent raises.
checkNextLine(self, lbrace, rbrace, t, first) ==
    LET v1 == LogIf(~areOnSameColumn(first, lbrace), lbrace, MsgOpenColumn)
    IN  IF t = None THEN Checked(v1, "AttributeError")
        ELSE LET v2 == LogIf(t[1].start.line = lbrace[1].start.line + 1,
                             lbrace, MsgNextLine)
             IN  IF ~areOnSameColumn(first, rbrace)
                 THEN IF rbrace = None
                      THEN Checked(v1 \o v2, "AttributeError")
                      ELSE Checked(v1 \o v2 \o LogIf(TRUE, rbrace, MsgCloseColumn),
                                   NoException)
                 ELSE Checked(v1 \o v2, NoException)

\* The else branch as it would be if next_level were the block's own level.
checkNextLineIndentOwnLevel(self, indent_type, lbrace, rbrace, t) ==
    IF indent_type # "next-line-indent" THEN Checked(<<>>, "AssertionError")
    ELSE IF t = None THEN Checked(<<>>, "AttributeError")
    ELSE LET v1 == LogIf(t[1].start.line = lbrace[1].start.line + 1,
                         lbrace, MsgNextLine)
             next_level == IndentLevel(None, Some(self.level), Some(0))
         IN  IF rbrace = None THEN Checked(v1, "AttributeError")
             ELSE Checked(
                    v1 \o LogIf(~accept(next_level, expandedTabsColumnNo(lbrace[1])),
                                lbrace, MsgOpenIndent)
                       \o LogIf(~accept(next_level, expandedTabsColumnNo(rbrace[1])),
                                rbrace, MsgCloseIndent),
                    NoException)

\* The else branch (lines 220-235): any other value than 'next-line-indent'
\* fails the assertion; the print statement reads rbrace.spelling.
checkNextLineIndent(self, indent_type, lbrace, rbrace, t) ==
    IF indent_type # "next-line-indent" THEN Checked(<<>>, "AssertionError")
    ELSE IF t = None THEN Checked(<<>>, "AttributeError")
    ELSE LET v1 == LogIf(t[1].start.line = lbrace[1].start.line + 1,
                         lbrace, MsgNextLine)
             next_level == IndentLevel(None, Some(self.level),
                                       Some(config.indentation_size))
         IN  IF rbrace = None THEN Checked(v1, "AttributeError")
             ELSE Checked(
                    v1 \o LogIf(~accept(next_level, expandedTabsColumnNo(lbrace[1])),
                                lbrace, MsgOpenIndent)
                       \o LogIf(~accept(next_level, expandedTabsColumnNo(rbrace[1])),
                                rbrace, MsgCloseIndent),
                    NoException)

checkCurlyBraces(self, indent_type) ==
    LET token_set == tokenize(self.node[1])
        lbrace == getLCurlyBrace(token_set)
        rbrace == getRCurlyBrace(token_set)
        t == getTokenLeftOfLeftLCurlyBrace(token_set)
    IN  IF lbrace = None
        THEN IF rbrace # None \/ t # None
             THEN Checked(<<>>, "AssertionError")
             ELSE Checked(<<>>, NoException)
        ELSE IF indent_type = "same-line"
        THEN checkSameLine(self, lbrace, rbrace, t, getFirstToken(token_set))
        ELSE IF indent_type = "next-line"
        THEN checkNextLine(self, lbrace, rbrace, t, getFirstToken(token_set))
        ELSE checkNextLineIndent(self, indent_type, lbrace, rbrace, t)

\* ------------------------------------------------------------------------
\* checkIndentation of the handler classes (indent.py 272-1007)
\* ------------------------------------------------------------------------

\* The brace style option a block handler class passes to checkCurlyBraces.
BraceStyleAttribute(klass) ==
    IF klass = "NamespaceHandler"
    THEN "brace_positions_namespace_declaration"
    ELSE "brace_positions_class_struct_declaration"

\* TypedefDeclHandler.checkIndentation (lines 939-947).
checkTypedefDecl(self) ==
    IF ~accept(self.level, expandedTabsColumnNo(self.node[1]))
    THEN Checked(<<RuleViolation("indent.statement", self.node[1], MsgInvalidLevel)>>,
                 NoException)
    ELSE Checked(<<>>, NoException)

\* The classes that keep IndentSyntaxNodeHandler.checkIndentation, which
\* raises Exception('Abstract method!') (lines 136-137).
AbstractClasses == { "IndentSyntaxNodeHandler", "CurlyBraceBlockHandler" }

checkIndentation(self) ==
    CASE self.klass \in AbstractClasses -> Checked(<<>>, "Exception")
      [] self.klass \in CurlyBraceBlockClasses ->
            checkCurlyBraces(self, config[BraceStyleAttribute(self.klass)])
      [] self.klass = "TypedefDeclHandler" -> checkTypedefDecl(self)
      [] OTHER -> Checked(<<>>, NoException)

\* The token queries checkIndentation makes before anything depends on
\* their result: getLCurlyBrace, getRCurlyBrace and
\* getTokenLeftOfLeftLCurlyBrace in checkCurlyBraces (lines 194-196).  The
\* queries behind them are made on a window that holds a "{".
TokenQueries(self) == IF self.klass \in CurlyBraceBlockClasses THEN 3 ELSE 0

\* self._token_set after checkIndentation: the block handlers tokenize.
TokenSetAfterCheck(self) == QueryTokenSet(self, TokenQueries(self)).self.token_set

\* The tokenizer calls checkIndentation makes.
TokenizerCalls(self) == QueryTokenSet(self, TokenQueries(self)).tokenized

\* ------------------------------------------------------------------------
\* The Violation Sink (TreeCheck.violations; its class is not in indent.py)
\* ------------------------------------------------------------------------

\* self.violations.add(v): the sink keeps the violations in the order added.
ViolationsAdd(sink, v) == Append(sink, v)

RECURSIVE ViolationsAddAll(_, _)
ViolationsAddAll(sink, logged) ==
    IF logged = <<>> THEN sink
    ELSE ViolationsAddAll(ViolationsAdd(sink, Head(logged)), Tail(logged))

\* ------------------------------------------------------------------------
\* IndentationCheck (indent.py 1337-1367) and its driver
\* ------------------------------------------------------------------------

\* The driver of the check walks the tree depth first and calls beginTree,
\* enterNode/exitNode in well bracketed pairs, and endTree; an exception
\* leaves the call that raised it and ends the run.
DriverRunning == raised = NoException
DriverInTree == hist.open
DriverDepth == hist.entered - hist.exited

Called(op, node) == [op |-> op, node |-> node]

\* IndentationCheck.__init__ with the given configurations.
InitCheck(configs) ==
    /\ config \in configs
    /\ handlers = <<>>
    /\ level = 0
    /\ violations = <<>>
    /\ raised = NoException
    /\ hist = [ open |-> FALSE, trees |-> 0, entered |-> 0, exited |-> 0,
                constructed |-> 0, checked |-> 0, popped |-> 0, tokens |-> 0,
                origin |-> <<>> ]
    /\ call = Called("__init__", None)

BeginTree ==
    /\ DriverRunning
    /\ ~DriverInTree
    /\ hist.trees < MaxTrees
    /\ IF Len(handlers) # 0
       THEN /\ raised' = "AssertionError"
            /\ UNCHANGED handlers
       ELSE /\ handlers' = <<RootHandler>>
            /\ UNCHANGED raised
    /\ hist' = [hist EXCEPT !.open = TRUE, !.trees = @ + 1]
    /\ call' = Called("beginTree", None)
    /\ UNCHANGED <<config, level, violations>>

\* endTree as it would be if it left the root handler on the stack.
EndTreeKeepRoot ==
    /\ DriverRunning
    /\ DriverInTree
    /\ DriverDepth = 0
    /\ IF Len(handlers) # 1
       THEN raised' = "AssertionError"
       ELSE UNCHANGED raised
    /\ hist' = [hist EXCEPT !.open = FALSE]
    /\ call' = Called("endTree", None)
    /\ UNCHANGED <<config, handlers, level, violations>>

EndTree ==
    /\ DriverRunning
    /\ DriverInTree
    /\ DriverDepth = 0
    /\ IF Len(handlers) # 1
       THEN /\ raised' = "AssertionError"
            /\ UNCHANGED handlers
       ELSE /\ handlers' = <<>>
            /\ UNCHANGED raised
    /\ hist' = [hist EXCEPT !.open = FALSE]
    /\ call' = Called("endTree", None)
    /\ UNCHANGED <<config, level, violations>>

\* enterNode: getHandler, append, checkIndentation, level += 1.  A handler
\* object is truthy, so "if handler" always holds.  call records whether a
\* handler was constructed and how often its check called the tokenizer.
EnterNode(node) ==
    /\ DriverRunning
    /\ DriverInTree
    /\ DriverDepth < MaxDepth
    /\ hist.entered < MaxNodes
    /\ LET got == getHandler(node, handlers[Len(handlers)])
       IN  IF got.raised # NoException
           THEN /\ raised' = got.raised
                /\ hist' = [hist EXCEPT !.entered = @ + 1]
                /\ call' = [ op |-> "enterNode", node |-> Some(node),
                             constructed |-> FALSE, tokenized |-> 0 ]
                /\ UNCHANGED <<handlers, level, violations>>
           ELSE LET handler == got.value[1]
                    done == checkIndentation(handler)
                    token_set == TokenSetAfterCheck(handler)
                IN  /\ handlers' = Append(handlers,
                                          [handler EXCEPT !.token_set = token_set])
                    /\ violations' = ViolationsAddAll(violations, done.logged)
                    /\ raised' = done.raised
                    /\ level' = IF done.raised = NoException THEN level + 1 ELSE level
                    /\ hist' = [hist EXCEPT
                                  !.entered = @ + 1,
                                  !.constructed = @ + 1,
                                  !.checked = @ + 1,
                                  !.tokens = @ + (IF token_set = None THEN 0
                                                  ELSE Len(token_set[1])),
                                  !.origin = @ \o [i \in 1..Len(done.logged) |->
                                                     hist.entered + 1]]
                    /\ call' = [ op |-> "enterNode", node |-> Some(node),
                                 constructed |-> TRUE,
                                 tokenized |-> TokenizerCalls(handler) ]
    /\ UNCHANGED config

\* exitNode as it would be if the popped handler's level were handed to
\* its parent.
ExitNodeRelevel ==
    /\ DriverRunning
    /\ DriverInTree
    /\ DriverDepth > 0
    /\ level' = level - 1
    /\ handlers' = [ i \in 1..(Len(handlers) - 1) |->
                       IF i = Len(handlers) - 1
                       THEN [handlers[i] EXCEPT !.level = handlers[Len(handlers)].level]
                       ELSE handlers[i] ]
    /\ hist' = [hist EXCEPT !.exited = @ + 1, !.popped = @ + 1]
    /\ call' = Called("exitNode", None)
    /\ UNCHANGED <<config, violations, raised>>

ExitNode ==
    /\ DriverRunning
    /\ DriverInTree
    /\ DriverDepth > 0
    /\ level' = level - 1
    /\ handlers' = SubSeq(handlers, 1, Len(handlers) - 1)
    /\ hist' = [hist EXCEPT !.exited = @ + 1, !.popped = @ + 1]
    /\ call' = Called("exitNode", None)
    /\ UNCHANGED <<config, violations, raised>>

\* ------------------------------------------------------------------------
\* Spec: traversal sessions over trees of nodes without tokens
\* ------------------------------------------------------------------------

SessionOptions ==
    { "indentation_size", "indent_inside_class_struct_body",
      "indent_declarations_within_namespace_definition",
      "indent_statements_within_switch_body", "indent_within_switch_body" }

SessionKinds ==
    { CLASS_DECL, NAMESPACE, ENUM_DECL, SWITCH_STMT, TYPEDEF_DECL, LAMBDA_EXPR }

\* Where a declaration can start: at the first token of a line.
LineStarts ==
    { p \in Positions : \A q \in Positions : q.line = p.line => q.column >= p.column }

SessionNodes ==
    NodesOf(SessionKinds \ {TYPEDEF_DECL}, {FirstPosition}, {<<>>})
    \cup NodesOf({TYPEDEF_DECL}, LineStarts, {<<>>})

EnterSessionNode == \E node \in SessionNodes : EnterNode(node)

Init == InitCheck(Configs(KwargsOver(SessionOptions, MaxKwargs)))

Next == BeginTree \/ EnterSessionNode \/ ExitNode \/ EndTree

Spec == Init /\ [][Next]_vars

\* ------------------------------------------------------------------------
\* SpecBraces: sessions that enter one class with a token window, at the
\* top of the tree or inside classes without tokens
\* ------------------------------------------------------------------------

BraceOptions ==
    { "brace_positions_class_struct_declaration", "indentation_size", "tab_size" }

BlockNodes == NodesOf({CLASS_DECL}, {FirstPosition}, Windows)

\* The driver of these sessions walks down one path of the first tree until
\* it has entered a class with tokens, and then back up.
EnterBlockNode ==
    /\ DriverDepth < MaxBlockDepth
    /\ hist.tokens = 0
    /\ hist.exited = 0
    /\ hist.trees = 1
    /\ \E node \in BlockNodes : EnterNode(node)

InitBraces == InitCheck(Configs(KwargsOver(BraceOptions, MaxKwargs)))

NextBraces == BeginTree \/ EnterBlockNode \/ ExitNode \/ EndTree

SpecBraces == InitBraces /\ [][NextBraces]_vars

\* ------------------------------------------------------------------------
\* SpecTabs: one call of lengthExpandedTabs, one pass of its loop at a time
\* ------------------------------------------------------------------------

RECURSIVE LinesOfLen(_)
LinesOfLen(n) ==
    IF n = 0 THEN {<<>>}
    ELSE { Append(s, c) : s \in LinesOfLen(n - 1), c \in {TAB, NONTAB} }

Lines == UNION { LinesOfLen(n) : n \in 0..MaxLineLen }

\* The check itself is idle while a pure function is run on its own.
CheckIdle ==
    /\ config = DefaultConfig
    /\ handlers = <<>>
    /\ level = 0
    /\ violations = <<>>
    /\ raised = NoException
    /\ hist = [ open |-> FALSE, trees |-> 0, entered |-> 0, exited |-> 0,
                constructed |-> 0, checked |-> 0, popped |-> 0, tokens |-> 0,
                origin |-> <<>> ]

InitTabs ==
    /\ CheckIdle
    /\ \E s \in Lines : \E to_idx \in 0..Len(s) : \E tab_width \in 1..MaxTabWidth :
         call = [ op |-> "lengthExpandedTabs", s |-> s, to_idx |-> to_idx,
                  tab_width |-> tab_width, i |-> 0, l |-> 0, returned |-> FALSE ]

\* for i in range(0, to_idx): one pass.
TabsLoop ==
    /\ ~call.returned
    /\ call.i < call.to_idx
    /\ call' = [call EXCEPT
                  !.l = lengthExpandedTabsBody(call.s[call.i + 1], call.l,
                                               call.tab_width),
                  !.i = @ + 1]
    /\ UNCHANGED <<config, handlers, level, violations, raised, hist>>

\* return l
TabsReturn ==
    /\ ~call.returned
    /\ call.i >= call.to_idx
    /\ call' = [call EXCEPT !.returned = TRUE]
    /\ UNCHANGED <<config, handlers, level, violations, raised, hist>>

NextTabs == TabsLoop \/ TabsReturn

SpecTabs == InitTabs /\ [][NextTabs]_vars

\* ------------------------------------------------------------------------
\* SpecLevel: IndentLevel objects built, widened and derived on their own
\* ------------------------------------------------------------------------

Columns == 0..MaxIndent

InitLevel ==
    /\ CheckIdle
    /\ \E indent \in Columns :
         call = [ op |-> "IndentLevel", base |-> IndentLevel(Some(indent), None, None),
                  offset |-> None, derived |-> None ]

\* base.addAcceptedIndent(v) with an integer.
LevelAddValue ==
    /\ call.derived = None
    /\ \E v \in Columns :
         /\ Cardinality(call.base.levels \cup {v}) <= MaxMembers
         /\ call' = [call EXCEPT !.base = addAcceptedIndent(@, [int |-> v])]
    /\ UNCHANGED <<config, handlers, level, violations, raised, hist>>

\* base.addAcceptedIndent(other) with another IndentLevel.
LevelAddLevel ==
    /\ call.derived = None
    /\ \E v \in Columns, w \in Columns :
         LET other == addAcceptedIndent(IndentLevel(Some(v), None, None), [int |-> w])
         IN  /\ Cardinality(call.base.levels \cup other.levels) <= MaxMembers
             /\ call' = [call EXCEPT !.base = addAcceptedIndent(@, other)]
    /\ UNCHANGED <<config, handlers, level, violations, raised, hist>>

\* IndentLevel(base=base, offset=k)
LevelDerive ==
    /\ call.derived = None
    /\ \E k \in (0 - MaxOffset)..MaxOffset :
         call' = [call EXCEPT
                    !.offset = Some(k),
                    !.derived = Some(IndentLevel(None, Some(call.base), Some(k)))]
    /\ UNCHANGED <<config, handlers, level, violations, raised, hist>>

\* The derived level becomes the base of the next one.
LevelNext ==
    /\ call.derived # None
    /\ call.derived[1].levels \subseteq Columns
    /\ call' = [call EXCEPT !.base = call.derived[1], !.offset = None, !.derived = None]
    /\ UNCHANGED <<config, handlers, level, violations, raised, hist>>

NextLevel == LevelAddValue \/ LevelAddLevel \/ LevelDerive \/ LevelNext

SpecLevel == InitLevel /\ [][NextLevel]_vars

\* ------------------------------------------------------------------------
\* SpecConfig: one call IndentationConfig(**kwargs), one pass of the loop
\* over kwargs.items() at a time (a dict is walked in no particular order)
\* ------------------------------------------------------------------------

ConfigOptions ==
    { "indentation_size", "indent_inside_class_struct_body",
      "brace_positions_class_struct_declaration", "indent_within_switch_body",
      "__doc__" }

\* setattr(self, key, value)
setattr(self, key, value) ==
    [a \in DOMAIN self \cup {key} |-> IF a = key THEN value ELSE self[a]]

\* The defaults are set; the loop is about to start.
InitConfig ==
    /\ CheckIdle
    /\ \E kwargs \in KwargsOver(ConfigOptions, MaxOptions) :
         call = [ op |-> "IndentationConfig", kwargs |-> kwargs,
                  pending |-> DOMAIN kwargs, self |-> DefaultConfig,
                  value |-> None ]

\* A pass for a key hasattr knows (lines 1331-1334).
ConfigSetattr ==
    /\ call.value = None
    /\ raised = NoException
    /\ \E key \in call.pending :
         /\ hasattr(call.self, key)
         /\ call' = [call EXCEPT !.pending = @ \ {key},
                                 !.self = setattr(@, key, call.kwargs[key])]
    /\ UNCHANGED <<config, handlers, level, violations, raised, hist>>

\* A pass for a key hasattr does not know: the constructor raises and no
\* object is returned.
ConfigRaise ==
    /\ call.value = None
    /\ raised = NoException
    /\ \E key \in call.pending :
         /\ ~hasattr(call.self, key)
         /\ call' = [call EXCEPT !.pending = @ \ {key}]
    /\ raised' = "UnknownParameter"
    /\ UNCHANGED <<config, handlers, level, violations, hist>>

\* The loop is over: the object is returned.
ConfigReturn ==
    /\ call.value = None
    /\ raised = NoException
    /\ call.pending = {}
    /\ call' = [call EXCEPT !.value = Some(call.self)]
    /\ UNCHANGED <<config, handlers, level, violations, raised, hist>>

NextConfig == ConfigSetattr \/ ConfigRaise \/ ConfigReturn

SpecConfig == InitConfig /\ [][NextConfig]_vars

\* ------------------------------------------------------------------------
\* SpecScenario: sessions over a class with an owner token and two braces
\* and one typedef member inside it
\* ------------------------------------------------------------------------

ScenarioOptions ==
    { "indentation_size", "indent_inside_class_struct_body",
      "brace_positions_class_struct_declaration" }

\* The token windows "x { }", in source order.
BlockWindows ==
    { w \in WindowsOfLen(3) :
        w[1].spelling = "x" /\ w[2].spelling = "{" /\ w[3].spelling = "}" }

ScenarioClasses == NodesOf({CLASS_DECL}, {FirstPosition}, BlockWindows)

ScenarioMembers == NodesOf({TYPEDEF_DECL}, Positions, {<<>>})

\* The driver enters the class first and one member inside it.
EnterScenarioNode ==
    \/ /\ hist.entered = 0
       /\ \E node \in ScenarioClasses : EnterNode(node)
    \/ /\ DriverDepth = 1
       /\ hist.exited = 0
       /\ \E node \in ScenarioMembers : EnterNode(node)

InitScenario == InitCheck(Configs(KwargsOver(ScenarioOptions, MaxKwargs)))

NextScenario == BeginTree \/ EnterScenarioNode \/ ExitNode \/ EndTree

SpecScenario == InitScenario /\ [][NextScenario]_vars

\* ------------------------------------------------------------------------
\* SpecWiden: traversal sessions in which the level of a handler on the
\* stack is widened with addAcceptedIndent between the calls of the driver
\* ------------------------------------------------------------------------

WidenOptions == { "indentation_size", "indent_inside_class_struct_body" }

WidenNodes == NodesOf({CLASS_DECL, NAMESPACE, TYPEDEF_DECL}, {FirstPosition}, {<<>>})

EnterWidenNode ==
    /\ DriverDepth < MaxBlockDepth
    /\ \E node \in WidenNodes : EnterNode(node)

\* handlers[i].level.addAcceptedIndent(v) with an integer: the call adds v
\* to the set of the object handlers[i].level refers to, and every handler
\* whose level is that object accepts v from then on.
WidenLevel ==
    /\ DriverRunning
    /\ DriverInTree
    /\ hist.trees = 1
    /\ \E i \in 1..Len(handlers), v \in 1..MaxWiden :
         /\ v \notin handlers[i].level.levels
         /\ Cardinality(handlers[i].level.levels) < MaxMembers
         /\ handlers' = [ j \in 1..Len(handlers) |->
                            IF handlers[j].level_object = handlers[i].level_object
                            THEN [handlers[j] EXCEPT
                                    !.level = addAcceptedIndent(@, [int |-> v])]
                            ELSE handlers[j] ]
         /\ call' = [op |-> "addAcceptedIndent", index |-> i, value |-> v]
    /\ UNCHANGED <<config, level, violations, raised, hist>>

InitWiden == InitCheck(Configs(KwargsOver(WidenOptions, MaxKwargs)))

NextWiden == BeginTree \/ EnterWidenNode \/ WidenLevel \/ ExitNode \/ EndTree

SpecWiden == InitWiden /\ [][NextWiden]_vars

\* ------------------------------------------------------------------------
\* Properties
\* ------------------------------------------------------------------------

\* The tab stop column of index to_idx of line s: a tab moves to the next
\* multiple of w above the current column, any other character adds one.
RECURSIVE TabStopColumn(_, _, _)
TabStopColumn(s, to_idx, w) ==
    IF to_idx = 0 THEN 0
    ELSE LET l == TabStopColumn(s, to_idx - 1, w)
         IN  IF s[to_idx] = TAB THEN ((l \div w) + 1) * w ELSE l + 1

\* C1: lengthExpandedTabs(s, i, w) returns the tab stop column of index i of
\* line s, for every line, every index up to its length and every tab width
\* from 1.
C1_TabStops ==
    call.returned => call.l = TabStopColumn(call.s, call.to_idx, call.tab_width)

\* The column the Column Resolver gives a position under the configured
\* tab width.
ResolvedColumn(p) ==
    lengthExpandedTabs(FileLines[p.line], p.column - 1, config.tab_size)

\* The last call was an enterNode that built, pushed and checked a handler.
EnteredLast == call.op = "enterNode" /\ call.constructed

LastNode == call.node[1]
LastHandler == handlers[Len(handlers)]

\* The indices in the sink of the violations the last enterNode logged.
LoggedLast == { i \in 1..Len(violations) : hist.origin[i] = hist.entered }
LoggedLastWith(text) == { i \in LoggedLast : violations[i].text = text }

\* The last call ran checkCurlyBraces to its end on a class with an owner
\* token, a left and a right brace.
BracesCheckedLast ==
    /\ EnteredLast
    /\ raised = NoException
    /\ LastHandler.klass \in CurlyBraceBlockClasses
    /\ getLCurlyBrace(LastNode.tokens) # None
    /\ getRCurlyBrace(LastNode.tokens) # None
    /\ getTokenLeftOfLeftLCurlyBrace(LastNode.tokens) # None

LastStyle == config.brace_positions_class_struct_declaration
LastFirst == LastNode.tokens[1].start
LastOwner == getTokenLeftOfLeftLCurlyBrace(LastNode.tokens)[1].start
LastLBrace == getLCurlyBrace(LastNode.tokens)[1].start
LastRBrace == getRCurlyBrace(LastNode.tokens)[1].start

\* C2: the brace check compares resolved (tab-expanded) columns: under
\* 'same-line' and 'next-line' a brace is reported as off the column of the
\* block start exactly when its resolved column differs from that of the
\* first token.
C2_ResolvedColumnsCompared ==
    BracesCheckedLast =>
        /\ LastStyle \in {"same-line", "next-line"} =>
              (LoggedLastWith(MsgCloseColumn) # {}
                 <=> ResolvedColumn(LastFirst) # ResolvedColumn(LastRBrace))
        /\ LastStyle = "next-line" =>
              (LoggedLastWith(MsgOpenColumn) # {}
                 <=> ResolvedColumn(LastFirst) # ResolvedColumn(LastLBrace))

\* C3: an enterNode for a kind without handler class raises, pushes no
\* handler and leaves the depth counter and the sink as they were; after
\* it nothing is pushed and no violation is added.
C3_FatalDispatch ==
    [][ /\ ( /\ hist'.entered = hist.entered + 1
             /\ ClassName(call'.node[1].kind) \notin HandlerClasses )
           => ( /\ raised' = "NameError"
                /\ handlers' = handlers
                /\ level' = level
                /\ violations' = violations )
        /\ raised = "NameError" => (violations' = violations /\ handlers' = handlers)
      ]_vars

C3_Witness ==
    /\ raised = "NameError"
    /\ call.op = "enterNode"
    /\ call.node[1].kind = LAMBDA_EXPR
    /\ Len(violations) > 0
    /\ level > 0

\* C4: in a session whose node kinds are all registered every enterNode
\* call builds exactly one handler and checks it in the same call, when
\* endTree is reached as many handlers were popped as built, and the sink
\* lists the violations in the order in which the nodes that logged them
\* were entered.
C4_TraversalComplete ==
    /\ raised # "NameError" =>
          /\ hist.constructed = hist.entered
          /\ hist.checked = hist.constructed
    /\ call.op = "endTree" =>
          /\ raised = NoException
          /\ handlers = <<>>
          /\ hist.constructed = hist.entered
          /\ hist.popped = hist.entered
    /\ \A i \in 1..Len(violations) : \A j \in i..Len(violations) :
          hist.origin[i] <= hist.origin[j]

\* C5: a level derived as IndentLevel(base=P, offset=k) accepts c exactly
\* when P accepts c - k, and has as many members as P, also for a P with
\* several members.
C5_DerivedLevel ==
    call.derived # None =>
        LET P == call.base
            L == call.derived[1]
            k == call.offset[1]
        IN  /\ \A c \in (0 - 2 * MaxOffset - 1)..(MaxIndent + 2 * MaxOffset + 1) :
                  accept(L, c) <=> accept(P, c - k)
            /\ Cardinality(L.levels) = Cardinality(P.levels)

C5_Witness ==
    /\ call.derived # None
    /\ call.offset[1] # 0
    /\ Cardinality(call.base.levels) > 1
    /\ Cardinality(call.derived[1].levels) > 1

\* C6: every handler on the stack got its level from the handler below it:
\* the same members where that handler does not increase the indent, and
\* the members plus indentation_size where it does.
C6_ChildLevel ==
    \A i \in 2..Len(handlers) :
        LET parent == handlers[i - 1]
            inc == shouldIncreaseIndent(parent)
        IN  /\ inc.raised = NoException
            /\ handlers[i].level.levels =
                  IF inc.value[1]
                  THEN { m + config.indentation_size : m \in parent.level.levels }
                  ELSE parent.level.levels

C6_Witness ==
    /\ Len(handlers) = 3
    /\ handlers[2].level.levels = handlers[1].level.levels
    /\ handlers[3].level.levels = { config.indentation_size }

\* The configuration flag that gates the indent of the children of a class.
GatingFlag(klass) ==
    CASE klass \in {"ClassDeclHandler", "StructDeclHandler", "EnumDeclHandler"} ->
            "indent_inside_class_struct_body"
      [] klass = "NamespaceHandler" ->
            "indent_declarations_within_namespace_definition"
      [] klass = "SwitchStmtHandler" -> "indent_statements_within_switch_body"

GatedClasses ==
    { "ClassDeclHandler", "StructDeclHandler", "EnumDeclHandler", "NamespaceHandler",
      "SwitchStmtHandler" }

\* C7: a child of a class, struct, enum, namespace or switch handler gets
\* the parent's level plus indentation_size when the parent's flag is set
\* and the parent's level when it is not, and entering a child of a switch
\* statement yields a level whatever the switch flag is.
C7_GatedIncrease ==
    /\ \A i \in 2..Len(handlers) :
          handlers[i - 1].klass \in GatedClasses =>
              handlers[i].level.levels =
                 IF config[GatingFlag(handlers[i - 1].klass)]
                 THEN { m + config.indentation_size : m \in handlers[i - 1].level.levels }
                 ELSE handlers[i - 1].level.levels
    /\ ~ ( /\ call.op = "enterNode"
           /\ raised = "AttributeError"
           /\ LastHandler.klass = "SwitchStmtHandler" )

\* C8: under 'same-line', with the closing brace on the start column of the
\* first token: no violation when the owner token and the opening brace
\* start on the same line, and exactly one, of kind 'indent.brace', when
\* the opening brace is on the line after the owner token.
C8_SameLine ==
    ( /\ BracesCheckedLast
      /\ LastStyle = "same-line"
      /\ LastRBrace.column = LastFirst.column )
    => /\ LastLBrace.line = LastOwner.line => LoggedLast = {}
       /\ LastLBrace.line = LastOwner.line + 1 =>
             /\ Cardinality(LoggedLast) = 1
             /\ \A i \in LoggedLast : violations[i].rule_type = "indent.brace"

C8_Witness ==
    /\ BracesCheckedLast
    /\ LastStyle = "same-line"
    /\ LastRBrace.column = LastFirst.column
    /\ LastLBrace.line = LastOwner.line + 1
    /\ Cardinality(LoggedLast) = 1

\* C9: under 'next-line' and 'next-line-indent' the violation 'Opening
\* brace should be on the line directly after block start.' is logged
\* exactly when the left brace is on the line after the owner token.
C9_NextLineReported ==
    ( BracesCheckedLast /\ LastStyle \in {"next-line", "next-line-indent"} )
    => ( LoggedLastWith(MsgNextLine) # {} <=> LastLBrace.line = LastOwner.line + 1 )

\* C10: under 'next-line-indent' each brace is accepted exactly when its
\* resolved column is a member of the handler's own level plus one
\* indentation unit, and each brace that is not accepted is reported once.
C10_NextLineIndent ==
    ( BracesCheckedLast /\ LastStyle = "next-line-indent" )
    => LET next == { m + config.indentation_size : m \in LastHandler.level.levels }
       IN  /\ Cardinality(LoggedLastWith(MsgOpenIndent)) =
                 IF ResolvedColumn(LastLBrace) \in next THEN 0 ELSE 1
           /\ Cardinality(LoggedLastWith(MsgCloseIndent)) =
                 IF ResolvedColumn(LastRBrace) \in next THEN 0 ELSE 1
           /\ \A i \in LoggedLast :
                 violations[i].text \in {MsgNextLine, MsgOpenIndent, MsgCloseIndent}

\* Unit 4, block level {0}: the opening brace at column 4 is accepted and
\* the closing brace at column 0 is reported once.
C10_Witness ==
    /\ BracesCheckedLast
    /\ LastStyle = "next-line-indent"
    /\ config.indentation_size = 4
    /\ LastHandler.level.levels = {0}
    /\ ResolvedColumn(LastLBrace) = 4
    /\ ResolvedColumn(LastRBrace) = 0
    /\ LoggedLastWith(MsgOpenIndent) = {}
    /\ Cardinality(LoggedLastWith(MsgCloseIndent)) = 1

\* C11: a brace style option that is none of 'same-line', 'next-line' and
\* 'next-line-indent' is rejected when the configuration is constructed: no
\* tree is begun, and no brace check runs, under a configuration that
\* carries another value.
C11_StyleValidated ==
    /\ hist.trees > 0 =>
          \A a \in { "brace_positions_class_struct_declaration",
                     "brace_positions_namespace_declaration" } :
              config[a] \in BraceStyles
    /\ ( EnteredLast /\ LastHandler.klass \in CurlyBraceBlockClasses )
          => config[BraceStyleAttribute(LastHandler.klass)] \in BraceStyles

\* C13: the level of a handler on the stack is the same set of columns
\* after every enterNode, exitNode and check as before it, as long as the
\* handler stays on the stack.
C13_LevelFixed ==
    [][ \A i \in 1..Len(handlers) :
           i <= Len(handlers') => handlers'[i].level = handlers[i].level ]_vars

C13_Witness ==
    /\ call.op = "exitNode"
    /\ Len(handlers) = 2
    /\ handlers[2].klass = "ClassDeclHandler"
    /\ config.indent_inside_class_struct_body
    /\ handlers[2].level.levels = {0}
    /\ Len(violations) > 0

\* C14: in a well bracketed session without fatal error the stack holds
\* exactly the root handler right after beginTree and whenever endTree can
\* be called, no assertion of beginTree or endTree fails, and the stack is
\* empty after endTree and between trees.
C14_RootBracket ==
    /\ raised # "AssertionError"
    /\ call.op = "beginTree" => handlers = <<RootHandler>>
    /\ ( DriverRunning /\ DriverInTree /\ DriverDepth = 0 ) => handlers = <<RootHandler>>
    /\ ( DriverRunning /\ DriverInTree ) => Len(handlers) = DriverDepth + 1
    /\ call.op = "endTree" => handlers = <<>>
    /\ ~DriverInTree => handlers = <<>>

C14_Witness ==
    /\ call.op = "endTree"
    /\ hist.trees = MaxTrees
    /\ hist.exited > 0
    /\ handlers = <<>>
    /\ raised = NoException

\* C15: an enterNode whose check logs a violation returns normally, with
\* the handler pushed on the unchanged stack and the depth counter
\* incremented, and the sink is only ever extended.
C15_ViolationNotFatal ==
    [][ /\ ( hist'.entered = hist.entered + 1 /\ Len(violations') > Len(violations) )
           => /\ raised' = NoException
              /\ Len(handlers') = Len(handlers) + 1
              /\ SubSeq(handlers', 1, Len(handlers)) = handlers
              /\ level' = level + 1
        /\ SubSeq(violations', 1, Len(violations)) = violations
      ]_vars

\* C16: entering a typedef declaration appends exactly one violation,
\* 'Invalid indentation level.', when the resolved column of the node's
\* start is no member of the handler's level, and none when it is.
C16_TypedefDecl ==
    ( EnteredLast /\ LastHandler.klass = "TypedefDeclHandler" )
    => /\ raised = NoException
       /\ Cardinality(LoggedLast) =
             IF ResolvedColumn(LastNode.start) \in LastHandler.level.levels
             THEN 0 ELSE 1
       /\ \A i \in LoggedLast :
             /\ violations[i].text = MsgInvalidLevel
             /\ violations[i].line = LastNode.start.line
             /\ violations[i].column = LastNode.start.column

\* A typedef behind a tab, accepted on the resolved column 4.
C16_Witness ==
    /\ EnteredLast
    /\ LastHandler.klass = "TypedefDeclHandler"
    /\ FileLines[LastNode.start.line][1] = TAB
    /\ LastHandler.level.levels = {4}
    /\ LoggedLast = {}
    /\ Len(violations) = 1

\* C18: the root handler accepts column 0 and no other column, has no
\* parent, and neither its construction nor its check appends a violation.
C18_RootLevel ==
    /\ Len(handlers) >= 1 =>
          /\ handlers[1].klass = "RootHandler"
          /\ \A c \in (0 - 1)..(MaxIndent + 1) : accept(handlers[1].level, c) <=> c = 0
          /\ handlers[1].level.levels = {0}
          /\ handlers[1].parent = None
          /\ checkIndentation(handlers[1]) = Checked(<<>>, NoException)
    /\ hist.entered = 0 => violations = <<>>
    /\ \A i \in 1..Len(violations) : hist.origin[i] >= 1

C18_Witness ==
    /\ hist.trees = MaxTrees
    /\ Len(handlers) = 3
    /\ handlers[3].level.levels # {0}
    /\ Len(violations) > 0

\* The last call ran the check of a block handler on a window without "{".
NoLeftBraceLast ==
    /\ EnteredLast
    /\ LastHandler.klass \in CurlyBraceBlockClasses
    /\ getLCurlyBrace(LastNode.tokens) = None

\* C19 as stated: on every window without '{' the right brace and the owner
\* token are absent too, the check returns normally and appends nothing.
C19_NoLeftBraceReturns ==
    NoLeftBraceLast =>
        /\ getRCurlyBrace(LastNode.tokens) = None
        /\ getTokenLeftOfLeftLCurlyBrace(LastNode.tokens) = None
        /\ raised = NoException
        /\ LoggedLast = {}

\* C20: the check of a block handler calls the tokenizer at most once,
\* whatever its window, and leaves the window cached on the handler.
C20_TokenizedOnce ==
    ( EnteredLast /\ LastHandler.klass \in CurlyBraceBlockClasses )
    => /\ call.tokenized <= 1
       /\ LastHandler.token_set = Some(LastNode.tokens)

\* C12: IndentationConfig(**kwargs) with a name that is none of the
\* predefined options raises UnknownParameter and returns no object; with
\* predefined names only it returns an object in which each supplied option
\* has the supplied value and every other option its default.
C12_UnknownParameter ==
    LET unknown == DOMAIN call.kwargs \ DOMAIN DefaultConfig
    IN  /\ unknown # {} => call.value = None
        /\ ( unknown # {} /\ call.pending \cap unknown = {} )
              => raised = "UnknownParameter"
        /\ raised # NoException => ( raised = "UnknownParameter" /\ unknown # {} )
        /\ call.value # None =>
              \A a \in DOMAIN DefaultConfig :
                  call.value[1][a] = IF a \in DOMAIN call.kwargs
                                     THEN call.kwargs[a] ELSE DefaultConfig[a]

\* The class and the member of the scenario: the class starts at column 0
\* with '{' on the line of the owner token and '}' on the column of the
\* first token, the member is one column off column 4.
ScenarioEntered ==
    /\ config.indentation_size = 4
    /\ config.indent_inside_class_struct_body
    /\ config.brace_positions_class_struct_declaration = "same-line"
    /\ hist.trees = 1
    /\ hist.entered = 2
    /\ EnteredLast
    /\ Len(handlers) = 3
    /\ LastHandler.klass = "TypedefDeclHandler"
    /\ ResolvedColumn(LastNode.start) \in {3, 5}
    /\ LET block == handlers[2].node[1].tokens
       IN  /\ handlers[2].klass = "ClassDeclHandler"
           /\ ResolvedColumn(block[1].start) = 0
           /\ block[2].start.line = block[1].start.line
           /\ block[3].start.column = block[1].start.column
           /\ ResolvedColumn(block[3].start) = 0

\* The sink holds the member's 'Invalid indentation level.' and nothing else.
ScenarioSink ==
    /\ Len(violations) = 1
    /\ violations[1].text = MsgInvalidLevel
    /\ violations[1].rule_type = "indent.statement"
    /\ violations[1].line = LastNode.start.line
    /\ violations[1].column = LastNode.start.column

\* C17: in the session beginTree, enter class, enter member, exit, exit,
\* endTree of the scenario, the sink holds exactly the member's 'Invalid
\* indentation level.' violation once the member is entered, and the calls
\* that follow leave the sink as it is, so no 'indent.brace' violation is
\* in it at the end.
C17_TwoNodeSession ==
    [][ /\ ScenarioEntered' => ScenarioSink'
        /\ hist.entered = 2 => violations' = violations
      ]_vars

C17_Witness ==
    /\ call.op = "endTree"
    /\ hist.entered = 2
    /\ hist.popped = 2
    /\ handlers = <<>>
    /\ config.indentation_size = 4
    /\ config.indent_inside_class_struct_body
    /\ config.brace_positions_class_struct_declaration = "same-line"
    /\ violations = << [ rule_type |-> "indent.statement", line |-> 2, column |-> 3,
                         text |-> MsgInvalidLevel ] >>

\* C21: between beginTree and endTree the depth counter is the number of
\* handlers on the stack minus one, also after an enterNode that ended with
\* an error raised by dispatch or by the check of the handler.
C21_DepthCounter ==
    DriverInTree => level = Len(handlers) - 1

\* The handlers strictly below handler i whose shouldIncreaseIndent() is true.
IncreasingBelow(i) ==
    { j \in 1..(i - 1) :
        /\ shouldIncreaseIndent(handlers[j]).raised = NoException
        /\ shouldIncreaseIndent(handlers[j]).value[1] }

\* C22: every handler on the stack has a level of one member, which is
\* indentation_size times the number of handlers strictly below it whose
\* shouldIncreaseIndent() is true; the traversal makes no level of several
\* members.
C22_SingleLevel ==
    \A i \in 1..Len(handlers) :
        /\ \A j \in 1..(i - 1) : shouldIncreaseIndent(handlers[j]).raised = NoException
        /\ ~isMultilevel(handlers[i].level)
        /\ handlers[i].level.levels =
              { config.indentation_size * Cardinality(IncreasingBelow(i)) }

\* Two increasing handlers and one that does not increase below the top.
C22_Witness ==
    /\ Len(handlers) = 4
    /\ config.indentation_size = 2
    /\ Cardinality(IncreasingBelow(4)) = 2
    /\ handlers[4].level.levels = {4}
    /\ handlers[3].level.levels = {2}

\* C23: widening the level of a handler with addAcceptedIndent changes the
\* level of that handler only, not the level of its parent, of its children
\* or of any other handler on the stack; a child entered afterwards gets a
\* level object of its own that holds the widened level, shifted where the
\* handler increases the indent.
C23_WidenFrame ==
    [][ /\ ( call'.op = "addAcceptedIndent" /\ call' # call )
           => /\ Len(handlers') = Len(handlers)
              /\ \A j \in 1..Len(handlers) :
                    IF j = call'.index
                    THEN handlers'[j].level.levels =
                            handlers[j].level.levels \cup {call'.value}
                    ELSE handlers'[j] = handlers[j]
        /\ ( call'.op = "enterNode" /\ call'.constructed
             /\ hist'.entered = hist.entered + 1 )
           => LET top == handlers[Len(handlers)]
                  offset == IF shouldIncreaseIndent(top).value[1]
                            THEN config.indentation_size ELSE 0
                  pushed == handlers'[Len(handlers')]
              IN  /\ SubSeq(handlers', 1, Len(handlers)) = handlers
                  /\ pushed.level.levels = { m + offset : m \in top.level.levels }
                  /\ \A j \in 1..Len(handlers) :
                        handlers[j].level_object # pushed.level_object
      ]_vars

\* A namespace, which does not increase the indent, widened while its child
\* is on the stack; the child holds the same columns as the namespace did
\* and keeps them, as the root does.
C23_Witness ==
    /\ call.op = "addAcceptedIndent"
    /\ call.index = 2
    /\ Len(handlers) = 3
    /\ handlers[2].klass = "NamespaceHandler"
    /\ handlers[1].level.levels = {0}
    /\ handlers[2].level.levels = {0, call.value}
    /\ handlers[3].level.levels = {0}

====
